---- MODULE Spec2Model ----
(***************************************************************************)
(* Model of the oneDNN graph memory planner                                *)
(* (src/src/backend/dnnl/passes/memory_planning.hpp).                      *)
(*                                                                         *)
(* Part 1: buffer_assigner_t, the free-list pool of buffer_info_t.         *)
(*   data_  : std::vector<unique_ptr<buffer_info_t>>, slot id i is the     *)
(*            (i+1)-th element of the sequence.                            *)
(*   free_  : std::multimap<size_t, buffer_info_t *>, kept as the sequence *)
(*            of its entries in iteration order (ascending key, equal keys *)
(*            in insertion order); a pointer is the id of the slot it      *)
(*            points to.                                                   *)
(* Sizes are byte sizes of tensors, far below 2^64 / match_range_, so the  *)
(* products and quotients of request() are exact.                          *)
(*                                                                         *)
(* Part 2: memory_planner_t over one subgraph.  The header declares the    *)
(* planner's state and its passes; the passes' bodies are not part of the  *)
(* header and follow the design document (section 4.4).  The planner's     *)
(* temporary_buffer_assigner_ is the assigner of part 1 (match_range_,     *)
(* data_, free_).                                                          *)
(***************************************************************************)
EXTENDS Integers, Sequences, FiniteSets, TLC

VARIABLES
    match_range_,   \* buffer_assigner_t::match_range_
    data_,          \* buffer_assigner_t::data_
    free_,          \* buffer_assigner_t::free_
    last,           \* the last call made on the assigner and what it returned
    pre_data,       \* data_ as it was when the last call was made
    pre_free,       \* free_ as it was when the last call was made
    pre_match_range,    \* match_range_ as it was when the last call was made
    live,           \* ids returned by request and not released since
    pre_live,       \* live as it was when the last call was made
    issued,         \* ids returned by request since construction / clear()
    pre_issued,     \* issued as it was when the last call was made
    misused,        \* TRUE once release was called on an id that was not live
    peak,           \* per slot, the largest size of the requests that returned it
    graph,          \* the subgraph handed to memory_planner_t::run
    pc,             \* the pass of run() that is due next
    cursor,         \* the operation the temporary-buffer pass visits next
    enable_memory_sharing_,         \* memory_planner_t::enable_memory_sharing_
    alias_map_,                     \* memory_planner_t::alias_map_
    reverse_alias_map_,             \* memory_planner_t::reverse_alias_map_
    buffer_assignments_,            \* memory_planner_t::buffer_assignments_
    edge_ref_count,                 \* consumers per value (argument of the passes)
    temporary_buffer_ref_count_,    \* memory_planner_t::temporary_buffer_ref_count_
    persistent_buffer_assigner_,    \* its data_ and free_ (match range 16)
    persistent_registry_,           \* memory_planner_t::persistent_registry_
    temporary_registry_,            \* memory_planner_t::temporary_registry_
    exec_args_set_,                 \* memory_planner_t::exec_args_set_
    ndebug,         \* TRUE if the library was built with NDEBUG
    run_state,      \* "running", or how the process using the assigner ended
    mem_reuse_env,  \* _DNNL_GRAPH_ENABLE_MEM_REUSE: <<>> if unset, else <<n>>
    sycl_intel,     \* TRUE if the library was built with MKLDNN_SYCL_INTEL
    arg_list,       \* the kernel_arg_list_t that the kernel is run with
    queue,          \* the command groups submitted to the stream's queue
    kernel_last,    \* the last call of parallel_for, what it returned and
                    \* the queue as it was when the call was made
    mem_info,       \* the last call of get_memory_info and the string returned
    args_last,      \* the last call made on exec_args_set_, what it returned
                    \* and the set as it was when the call was made
    args_added,     \* the arguments of the calls of add_exec_args, in order
    first_mapped,   \* per Value, the memory of the first call of
                    \* add_value_mem_map made for it
    mem_heap,       \* the dnnl::memory objects: the data handle of each
    replica,        \* per thread, the execution_args_set_t it has cloned
    tpc,            \* per thread, its next step
    released        \* the slots on the free list in the order of their
                    \* release, now and when the last call was made

avars == <<match_range_, data_, free_, last, pre_data, pre_free,
           pre_match_range, live, pre_live, issued, pre_issued, misused, peak>>

pvars == <<graph, pc, cursor, enable_memory_sharing_, alias_map_,
           reverse_alias_map_, buffer_assignments_, edge_ref_count,
           temporary_buffer_ref_count_, persistent_buffer_assigner_,
           persistent_registry_, temporary_registry_, exec_args_set_>>

\* what run() hands over: the registries and the execution argument set
rvars == <<persistent_registry_, temporary_registry_, exec_args_set_>>

\* the build and the fate of the process
bvars == <<ndebug, run_state>>

\* what neither the assigner nor the planner owns
\* calls made on an execution_args_set_t
svars == <<args_last, args_added, first_mapped>>

\* threads that execute with a replica of an execution_args_set_t
cvars == <<mem_heap, replica, tpc>>

\* the kernel's build, argument list, queue and last call
kvars == <<sycl_intel, arg_list, queue, kernel_last>>

xvars == <<bvars, mem_reuse_env, kvars, mem_info, svars, cvars, released>>

vars == <<avars, pvars, xvars>>

\* ---------------------------------------------------------------- bounds
MaxSize == 3        \* request sizes are drawn from 0..MaxSize
MaxSlots == 2       \* alloc is not called once data_ holds this many slots
MaxFree == 2        \* release is not called once free_ holds this many entries

Sizes == 0..MaxSize

\* match ranges the assigner is constructed with (16 is the planner's)
MatchRanges == {0, 1, 2, 16}

\* static_cast<size_t>(-1): the id request(0) returns
NoBuffer == -1

Max(a, b) == IF a >= b THEN a ELSE b

\* ------------------------------------------------- std::multimap<size_t,.>
\* position of the first entry whose key is not less than k (Len+1: end())
lower_bound(f, k) ==
    CHOOSE i \in 1..(Len(f) + 1) :
        /\ \A j \in 1..(i - 1) : f[j].key < k
        /\ i = Len(f) + 1 \/ f[i].key >= k

\* position of the first entry whose key is greater than k (Len+1: end())
upper_bound(f, k) ==
    CHOOSE i \in 1..(Len(f) + 1) :
        /\ \A j \in 1..(i - 1) : f[j].key <= k
        /\ i = Len(f) + 1 \/ f[i].key > k

\* faulty erase: the entry stays in the map
erase_nothing(f, it) == f

\* free_.erase(it)
erase(f, it) == SubSeq(f, 1, it - 1) \o SubSeq(f, it + 1, Len(f))

\* faulty insert: before the first entry with an equal key
insert_before_equal(f, ent) ==
    LET p == lower_bound(f, ent.key)
    IN SubSeq(f, 1, p - 1) \o <<ent>> \o SubSeq(f, p, Len(f))

\* free_.insert({key, e}): after the last entry with an equal key
insert(f, ent) ==
    LET p == upper_bound(f, ent.key)
    IN SubSeq(f, 1, p - 1) \o <<ent>> \o SubSeq(f, p, Len(f))

\* ------------------------------------------------------ buffer_assigner_t
\* buffer_info_t(id, size)
buffer_info_t(id, size) == [id_ |-> id, max_bytes_ |-> size]

\* faulty alloc: the id is not taken from data_.size()
alloc_id_zero(d, f, size) ==
    [data |-> Append(d, buffer_info_t(0, size)), free |-> f, ret |-> 0]

\* alloc(size): a new slot at the end of data_, its id the old data_.size()
alloc(d, f, size) ==
    LET id == Len(d)
    IN [data |-> Append(d, buffer_info_t(id, size)), free |-> f, ret |-> id]

\* faulty update: e->max_bytes_ = size
grow_overwrite(size, max_bytes) == size

\* e->max_bytes_ = std::max(size, e->max_bytes_)
grow(size, max_bytes) == Max(size, max_bytes)

\* faulty loop body: returns e->max_bytes_ in place of e->id_
reuse_returns_size(d, f, it, size) ==
    LET e == f[it].e
    IN [data |-> [d EXCEPT ![e + 1].max_bytes_ = grow(size, @)],
        free |-> erase(f, it),
        ret |-> d[e + 1].max_bytes_]

\* body of both search loops of request: take the entry at position it
reuse(d, f, it, size) ==
    LET e == f[it].e
    IN [data |-> [d EXCEPT ![e + 1].max_bytes_ = grow(size, @)],
        free |-> erase(f, it),
        ret |-> d[e + 1].id_]

\* the three iterators request() computes
begin_of(f, R, size) == lower_bound(f, size \div R)

mid_of(f, size) == lower_bound(f, size)

\* faulty end: free_.end(), no upper limit on the size
end_unbounded(f, R, size) == Len(f) + 1

end_of(f, R, size) == upper_bound(f, size * R)

\* faulty ascending scan: starts from the largest entry below end
scan_up_last(f, R, size) == end_of(f, R, size) - 1

\* first iteration of "for (auto it = mid; it != end; ++it)"
scan_up(f, R, size) == mid_of(f, size)

\* faulty descending scan: starts from begin, the smallest entry
scan_down_first(f, R, size) == begin_of(f, R, size)

\* first iteration of "for (auto it = mid; it != begin;) { --it; ..."
scan_down(f, R, size) == mid_of(f, size) - 1

\* request(size) when size != 0 and match_range_ != 0
search(d, f, R, size) ==
    IF mid_of(f, size) # end_of(f, R, size)
    THEN reuse(d, f, scan_up(f, R, size), size)
    ELSE IF mid_of(f, size) # begin_of(f, R, size)
         THEN reuse(d, f, scan_down(f, R, size), size)
         ELSE alloc(d, f, size)

\* faulty request: no early return for size 0
request_no_zero_check(d, f, R, size) ==
    IF R = 0 THEN alloc(d, f, size) ELSE search(d, f, R, size)

\* faulty request: match range 0 searches for an exact match
request_range_zero_as_one(d, f, R, size) ==
    IF size = 0 THEN [data |-> d, free |-> f, ret |-> NoBuffer]
    ELSE search(d, f, Max(R, 1), size)

\* request(size)
request(d, f, R, size) ==
    IF size = 0 THEN [data |-> d, free |-> f, ret |-> NoBuffer]
    ELSE IF R = 0 THEN alloc(d, f, size)
    ELSE search(d, f, R, size)

\* the assertion of release and query_size
valid_id(d, id) == id \in 0..(Len(d) - 1) \/ id = NoBuffer

\* faulty release: the entry is keyed by e->id_
release_key_id(d, f, id) ==
    IF id = NoBuffer THEN f
    ELSE insert(f, [key |-> id, e |-> id])

\* release(id)
release(d, f, id) ==
    IF id = NoBuffer THEN f
    ELSE insert(f, [key |-> d[id + 1].max_bytes_, e |-> id])

\* faulty query_size: returns e->id_ in place of e->max_bytes_
query_size_returns_id(d, id) == IF id = NoBuffer THEN 0 ELSE d[id + 1].id_

\* query_size(id)
query_size(d, id) == IF id = NoBuffer THEN 0 ELSE d[id + 1].max_bytes_

\* ------------------------------------------------------------------ state
AssignerInit(ranges) ==
    /\ match_range_ \in ranges
    /\ data_ = <<>>
    /\ free_ = <<>>
    /\ last = [op |-> "new", arg |-> 0, ret |-> 0]
    /\ pre_data = <<>>
    /\ pre_free = <<>>
    /\ pre_match_range = match_range_
    /\ live = {}
    /\ pre_live = {}
    /\ issued = {}
    /\ pre_issued = {}
    /\ misused = FALSE
    /\ peak = <<>>

\* a registry_t in which nothing is booked
registry_t == [size_ |-> 0, offset_map_ |-> <<>>]

\* an execution_args_set_t to which nothing was added
execution_args_set_t ==
    [topo_ordered_exec_args_ |-> <<>>,
     value_mem_map_ |-> <<>>,
     mems_use_external_inputs_ |-> <<>>,
     mems_use_external_outputs_ |-> <<>>,
     mems_use_internal_temporary_ |-> <<>>,
     mems_use_internal_persistent_ |-> <<>>]

\* nothing is booked and nothing is bound
NothingPrepared ==
    /\ persistent_registry_ = registry_t
    /\ temporary_registry_ = registry_t
    /\ exec_args_set_ = execution_args_set_t

\* a memory_planner_t on which run() has not been called
PlannerIdle ==
    /\ NothingPrepared
    /\ graph = [ops |-> <<>>, bytes |-> <<>>, constant |-> {}, outputs |-> {}]
    /\ pc = "idle"
    /\ cursor = 0
    /\ enable_memory_sharing_ = TRUE
    /\ alias_map_ = <<>>
    /\ reverse_alias_map_ = <<>>
    /\ buffer_assignments_ = <<>>
    /\ edge_ref_count = <<>>
    /\ temporary_buffer_ref_count_ = <<>>
    /\ persistent_buffer_assigner_ = [data_ |-> <<>>, free_ |-> <<>>]

\* a debug build, nothing has gone wrong
BuildIdle ==
    /\ ndebug = FALSE
    /\ run_state = "running"

\* impl::utils::getenv_int(name, default_value), e the value of name
getenv_int(e, default_value) == IF e = <<>> THEN default_value ELSE e[1]

\* faulty test of the environment variable: >= 0
mem_reuse_enabled_at_zero(e) == getenv_int(e, 1) >= 0

\* the constructor's value of enable_memory_sharing_
mem_reuse_enabled(e) == getenv_int(e, 1) > 0

\* no kernel was run
KernelIdle ==
    /\ sycl_intel = FALSE
    /\ arg_list = <<>>
    /\ queue = <<>>
    /\ kernel_last = [called |-> FALSE, range |-> <<>>, ret |-> <<>>,
                      pre |-> <<>>]

\* the environment variable is not set; get_memory_info was not called
EnvIdle ==
    /\ mem_reuse_env = <<>>
    /\ mem_info = [called |-> FALSE, val |-> 0, str |-> <<>>]

\* what the planner's constructor has run with: unset, or set to 0
EnvValues == {<<>>, <<0>>}

\* threads that may execute a compiled subgraph
Threads == {1, 2}

\* no call was made on exec_args_set_
ArgsIdle ==
    /\ args_last = [op |-> "new", arg |-> <<>>, ret |-> <<>>,
                    pre |-> execution_args_set_t]
    /\ args_added = <<>>
    /\ first_mapped = <<>>

\* no memory object exists and no thread has started
CloneIdle ==
    /\ mem_heap = <<>>
    /\ replica = [t \in Threads |-> execution_args_set_t]
    /\ tpc = [t \in Threads |-> [at |-> "idle", k |-> 0, seen |-> <<>>]]

\* nothing was released
TieIdle == released = [now |-> <<>>, pre |-> <<>>]

Init ==
    /\ AssignerInit(MatchRanges)
    /\ PlannerIdle
    /\ BuildIdle
    /\ EnvIdle
    /\ ArgsIdle
    /\ CloneIdle
    /\ TieIdle
    /\ KernelIdle

Remember ==
    /\ pre_data' = data_
    /\ pre_free' = free_
    /\ pre_match_range' = match_range_
    /\ pre_live' = live
    /\ pre_issued' = issued

\* a caller calls request(size)
Request ==
    \E size \in Sizes :
        LET r == request(data_, free_, match_range_, size)
        IN /\ Len(r.data) <= MaxSlots
           /\ data_' = r.data
           /\ free_' = r.free
           /\ last' = [op |-> "request", arg |-> size, ret |-> r.ret]
           /\ live' = IF r.ret = NoBuffer THEN live ELSE live \cup {r.ret}
           /\ issued' = IF r.ret = NoBuffer THEN issued
                        ELSE issued \cup {r.ret}
           /\ peak' = IF r.ret = NoBuffer THEN peak
                      ELSE IF r.ret = Len(peak) THEN Append(peak, size)
                      ELSE [peak EXCEPT ![r.ret + 1] = Max(size, @)]
           /\ Remember
           /\ UNCHANGED <<match_range_, misused, pvars>>

\* a caller calls release(id) with an id that passes the assertion
Release ==
    \E id \in (0..(Len(data_) - 1)) \cup {NoBuffer} :
        /\ valid_id(data_, id)
        /\ Len(free_) < MaxFree
        /\ free_' = release(data_, free_, id)
        /\ last' = [op |-> "release", arg |-> id, ret |-> 0]
        /\ live' = live \ {id}
        /\ misused' = (misused \/ (id # NoBuffer /\ id \notin live))
        /\ Remember
        /\ UNCHANGED <<match_range_, data_, issued, peak, pvars>>

\* a caller calls query_size(id) with an id that passes the assertion
QuerySize ==
    \E id \in (0..(Len(data_) - 1)) \cup {NoBuffer} :
        /\ valid_id(data_, id)
        /\ last' = [op |-> "query_size", arg |-> id,
                    ret |-> query_size(data_, id)]
        /\ Remember
        /\ UNCHANGED <<match_range_, data_, free_, live, issued, misused, peak,
                       pvars>>

\* faulty clear(): data_ is not cleared
Clear_keeps_data ==
    /\ free_' = <<>>
    /\ last' = [op |-> "clear", arg |-> 0, ret |-> 0]
    /\ live' = {}
    /\ issued' = {}
    /\ misused' = FALSE
    /\ Remember
    /\ UNCHANGED <<match_range_, data_, peak, pvars>>

\* a caller calls clear()
Clear ==
    /\ free_' = <<>>
    /\ data_' = <<>>
    /\ last' = [op |-> "clear", arg |-> 0, ret |-> 0]
    /\ live' = {}
    /\ issued' = {}
    /\ misused' = FALSE
    /\ peak' = <<>>
    /\ Remember
    /\ UNCHANGED <<match_range_, pvars>>

Next ==
    \/ Request /\ UNCHANGED xvars
    \/ Release /\ UNCHANGED xvars
    \/ QuerySize /\ UNCHANGED xvars
    \/ Clear /\ UNCHANGED xvars

Spec == Init /\ [][Next]_vars

\* --------------------------------------------------------- memory_planner_t
MaxOps == 3         \* operations of the subgraph
BigBytes == 32      \* byte size of a large tensor (a small one has 1 byte)

\* match range of both assigners of the planner
PlannerMatchRange == 16

\* Value 0 is the input of the subgraph, value i the output of operation i;
\* operations are numbered in topological order.
Ops == 1..MaxOps

Values == 0..MaxOps

ValueBytes == {1, BigBytes}

\* an operation i: the values it reads (produced earlier) and, at most one,
\* the input its output overwrites in place
OpShapes(i) ==
    {[in |-> I, inplace |-> P] :
        I \in {S \in SUBSET (0..(i - 1)) : S # {} /\ Cardinality(S) <= 2},
        P \in {S \in SUBSET (0..(i - 1)) : Cardinality(S) <= 1}}

\* operations wired in topological order; an in-place input is an input
Wirings ==
    {o \in [Ops -> UNION {OpShapes(i) : i \in Ops}] :
        \A i \in Ops : o[i] \in OpShapes(i) /\ o[i].inplace \subseteq o[i].in}

\* buffer_kind_t
external_input == "external_input"

external_output == "external_output"

internal_temporary == "internal_temporary"

internal_persistent == "internal_persistent"

\* assign_info_t(kind, index)
assign_info_t(kind, index) == [kind_ |-> kind, index_ |-> index]

\* the elements of a set of values in ascending order
RECURSIVE Ascending(_)
Ascending(S) ==
    IF S = {} THEN <<>>
    ELSE LET m == CHOOSE x \in S : \A y \in S : x <= y
         IN <<m>> \o Ascending(S \ {m})

\* position of x in sequence q
IndexOf(q, x) == CHOOSE k \in 1..Len(q) : q[k] = x

Assigned(v) == v \in DOMAIN buffer_assignments_

\* f with f[k] set to x, k added to its domain if need be
Put(f, k, x) == (k :> x) @@ f

\* run() is called on a subgraph.  Outputs of the subgraph (any number) and
\* constant values (cached across executions, at most one here) are produced
\* by operations that are not in place.  The byte size of a value only matters
\* if it gets a buffer of its own: the others are given size 1.
PlanInit ==
    /\ AssignerInit({PlannerMatchRange})
    /\ BuildIdle
    /\ NothingPrepared
    /\ \E o \in Wirings :
         \E c \in {S \in SUBSET {i \in Ops : o[i].inplace = {}} :
                      Cardinality(S) <= 1} :
           \E out \in SUBSET {i \in Ops : o[i].inplace = {} /\ i \notin c} :
             \E b \in [Ops -> ValueBytes] :
              /\ \A i \in Ops : (i \in out \/ o[i].inplace # {}) => b[i] = 1
              /\ graph = [ops |-> o, bytes |-> b, constant |-> c,
                          outputs |-> out]
    /\ pc = "assign_external_inputs_buffer"
    /\ cursor = 1
    /\ mem_reuse_env \in EnvValues
    /\ mem_info = [called |-> FALSE, val |-> 0, str |-> <<>>]
    /\ ArgsIdle
    /\ CloneIdle
    /\ TieIdle
    /\ KernelIdle
    /\ enable_memory_sharing_ = mem_reuse_enabled(mem_reuse_env)
    /\ alias_map_ = <<>>
    /\ reverse_alias_map_ = <<>>
    /\ buffer_assignments_ = <<>>
    /\ edge_ref_count = <<>>
    /\ temporary_buffer_ref_count_ = <<>>
    /\ persistent_buffer_assigner_ = [data_ |-> <<>>, free_ |-> <<>>]

\* pass 1: the input of the subgraph is bound to the caller's input 0
assign_external_inputs_buffer ==
    /\ pc = "assign_external_inputs_buffer"
    /\ buffer_assignments_' =
           Put(buffer_assignments_, 0, assign_info_t(external_input, 0))
    /\ pc' = "assign_external_outputs_buffer"
    /\ UNCHANGED <<avars, graph, cursor, enable_memory_sharing_, alias_map_,
                   reverse_alias_map_, edge_ref_count,
                   temporary_buffer_ref_count_, persistent_buffer_assigner_>>

\* pass 2: output j of the subgraph is bound to the caller's output j
assign_external_outputs_buffer ==
    /\ pc = "assign_external_outputs_buffer"
    /\ LET outs == Ascending(graph.outputs)
       IN buffer_assignments_' =
              [v \in DOMAIN buffer_assignments_ \cup graph.outputs |->
                  IF v \in graph.outputs
                  THEN assign_info_t(external_output, IndexOf(outs, v) - 1)
                  ELSE buffer_assignments_[v]]
    /\ pc' = "alias_discovery"
    /\ UNCHANGED <<avars, graph, cursor, enable_memory_sharing_, alias_map_,
                   reverse_alias_map_, edge_ref_count,
                   temporary_buffer_ref_count_, persistent_buffer_assigner_>>

\* the input that the output of in-place operation i overwrites
InplaceInput(i) == CHOOSE u \in graph.ops[i].inplace : TRUE

\* pass 3: every in-place output is recorded as an alias of its input
alias_discovery ==
    /\ pc = "alias_discovery"
    /\ LET ip == {i \in Ops : graph.ops[i].inplace # {}}
       IN /\ alias_map_' = [i \in ip |-> InplaceInput(i)]
          /\ reverse_alias_map_' =
                 [u \in {InplaceInput(i) : i \in ip} |->
                     CHOOSE i \in ip :
                         /\ InplaceInput(i) = u
                         /\ \A j \in ip : InplaceInput(j) = u => j <= i]
    /\ pc' = "reference_counting"
    /\ UNCHANGED <<avars, graph, cursor, enable_memory_sharing_,
                   buffer_assignments_, edge_ref_count,
                   temporary_buffer_ref_count_, persistent_buffer_assigner_>>

\* pass 4: the number of operations that consume each value
reference_counting ==
    /\ pc = "reference_counting"
    /\ edge_ref_count' =
           [v \in Values |->
               Cardinality({i \in Ops : v \in graph.ops[i].in})]
    /\ pc' = "assign_internal_persistent_buffer"
    /\ UNCHANGED <<avars, graph, cursor, enable_memory_sharing_, alias_map_,
                   reverse_alias_map_, buffer_assignments_,
                   temporary_buffer_ref_count_, persistent_buffer_assigner_>>

\* pass 5, for the constant values vs in turn: each gets a slot of the
\* persistent assigner, which is never released
RECURSIVE persistent_loop(_, _, _, _)
persistent_loop(vs, asg, d, f) ==
    IF vs = <<>> THEN [asg |-> asg, data_ |-> d, free_ |-> f]
    ELSE LET r == request(d, f, PlannerMatchRange, graph.bytes[Head(vs)])
         IN persistent_loop(Tail(vs),
                Put(asg, Head(vs), assign_info_t(internal_persistent, r.ret)),
                r.data, r.free)

assign_internal_persistent_buffer ==
    /\ pc = "assign_internal_persistent_buffer"
    /\ LET r == persistent_loop(Ascending(graph.constant),
                    buffer_assignments_, persistent_buffer_assigner_.data_,
                    persistent_buffer_assigner_.free_)
       IN /\ buffer_assignments_' = r.asg
          /\ persistent_buffer_assigner_' =
                 [data_ |-> r.data_, free_ |-> r.free_]
    /\ pc' = "assign_internal_temporary_buffer"
    /\ UNCHANGED <<avars, graph, cursor, enable_memory_sharing_, alias_map_,
                   reverse_alias_map_, edge_ref_count,
                   temporary_buffer_ref_count_>>

\* pass 6, the output of the visited operation: an output bound already
\* keeps its buffer, an alias takes the buffer of the value it overwrites,
\* any other output requests a temporary slot of its size
allocate_output(out, st) ==
    IF out \in DOMAIN st.asg THEN st
    ELSE IF out \in DOMAIN alias_map_
    THEN LET info == st.asg[alias_map_[out]]
         IN [st EXCEPT
                !.asg = Put(@, out, info),
                !.rc = IF info.kind_ = internal_temporary
                       THEN [@ EXCEPT ![info.index_] =
                                          @ + edge_ref_count[out]]
                       ELSE @]
    ELSE LET r == request(st.data, st.free, match_range_, graph.bytes[out])
         IN [asg |-> Put(st.asg, out,
                         assign_info_t(internal_temporary, r.ret)),
             rc |-> Put(st.rc, r.ret, edge_ref_count[out]),
             data |-> r.data,
             free |-> r.free]

\* pass 6, the inputs us of the visited operation in turn: one reference
\* less to the temporary slot of each; at zero the slot is released
RECURSIVE free_inputs(_, _)
free_inputs(us, st) ==
    IF us = <<>> THEN st
    ELSE LET info == st.asg[Head(us)]
             idx == info.index_
         IN IF info.kind_ # internal_temporary
            THEN free_inputs(Tail(us), st)
            ELSE free_inputs(Tail(us),
                     [st EXCEPT
                         !.rc = [@ EXCEPT ![idx] = @ - 1],
                         !.free = IF st.rc[idx] - 1 = 0
                                     /\ enable_memory_sharing_
                                  THEN release(st.data, @, idx)
                                  ELSE @])

\* pass 6 visits the next operation in topological order
assign_internal_temporary_buffer ==
    /\ pc = "assign_internal_temporary_buffer"
    /\ cursor \in Ops
    /\ LET st0 == [asg |-> buffer_assignments_,
                   rc |-> temporary_buffer_ref_count_,
                   data |-> data_, free |-> free_]
           st1 == allocate_output(cursor, st0)
           st2 == free_inputs(Ascending(graph.ops[cursor].in), st1)
       IN /\ buffer_assignments_' = st2.asg
          /\ temporary_buffer_ref_count_' = st2.rc
          /\ data_' = st2.data
          /\ free_' = st2.free
    /\ cursor' = cursor + 1
    /\ pc' = IF cursor = MaxOps THEN "prepare_execution_args_set" ELSE pc
    /\ UNCHANGED <<match_range_, last, pre_data, pre_free, pre_match_range,
                   live, pre_live,
                   issued, pre_issued, misused, peak, graph,
                   enable_memory_sharing_, alias_map_, reverse_alias_map_,
                   edge_ref_count, persistent_buffer_assigner_>>

\* ------------------------------------------------- execution_args_set_t
\* faulty add_exec_args: the arguments are put in front
add_exec_args_front(s, args) ==
    [s EXCEPT !.topo_ordered_exec_args_ = <<args>> \o @]

\* add_exec_args(args)
add_exec_args(s, args) ==
    [s EXCEPT !.topo_ordered_exec_args_ = Append(@, args)]

\* faulty add_value_mem_map: the new mapping replaces the one key has
add_value_mem_map_overwrites(s, map) ==
    [s EXCEPT !.value_mem_map_ =
         IF map[1] \in DOMAIN @ THEN [@ EXCEPT ![map[1]] = map[2]]
         ELSE Put(@, map[1], map[2])]

\* add_value_mem_map({key, mem}): unordered_map::insert keeps the mapping
\* that key already has
add_value_mem_map(s, map) ==
    IF map[1] \in DOMAIN s.value_mem_map_ THEN s
    ELSE [s EXCEPT !.value_mem_map_ = Put(@, map[1], map[2])]

\* add_mem_use_external_inputs({mem, index})
add_mem_use_external_inputs(s, mem_idx) ==
    [s EXCEPT !.mems_use_external_inputs_ = Append(@, mem_idx)]

\* add_mem_use_external_outputs({mem, index})
add_mem_use_external_outputs(s, mem_idx) ==
    [s EXCEPT !.mems_use_external_outputs_ = Append(@, mem_idx)]

\* add_mem_use_internal_temporary({mem, offset key})
add_mem_use_internal_temporary(s, mem_offkey) ==
    [s EXCEPT !.mems_use_internal_temporary_ = Append(@, mem_offkey)]

\* add_mem_use_internal_persistent({mem, offset key})
add_mem_use_internal_persistent(s, mem_offkey) ==
    [s EXCEPT !.mems_use_internal_persistent_ = Append(@, mem_offkey)]

\* find_value_mem_map(key, mem): the return value and mem after the call
find_value_mem_map(s, key, mem) ==
    IF key \in DOMAIN s.value_mem_map_
    THEN [ret |-> TRUE, mem |-> s.value_mem_map_[key]]
    ELSE [ret |-> FALSE, mem |-> mem]

\* ----------------------------------------------------------- registry_t
\* every offset is a multiple of the widest vector of the hardware
default_alignment == 64

\* registrar_t::book(key, size): the buffer is put after all those booked
\* before it, at the next aligned offset
book(reg, key, size) ==
    LET off == ((reg.size_ + default_alignment - 1) \div default_alignment)
                   * default_alignment
    IN [size_ |-> off + size, offset_map_ |-> Put(reg.offset_map_, key, off)]

\* the slots id, id + 1, ... of data_ d booked in turn, each with the size
\* the assigner has recorded for it
RECURSIVE book_slots(_, _, _)
book_slots(reg, d, id) ==
    IF id >= Len(d) THEN reg
    ELSE book_slots(book(reg, id, query_size(d, id)), d, id + 1)

\* grantor_t::get(key) of the grantor made for base_ptr
grantor_get(reg, base_ptr, key) == base_ptr + reg.offset_map_[key]

\* total_internal_temporary_size()
total_internal_temporary_size == temporary_registry_.size_

\* total_internal_persistent_size()
total_internal_persistent_size == persistent_registry_.size_

\* pass 7, the values vs in turn: the memory object of value v (named v) is
\* entered in the value map and in the list of its buffer kind, with the
\* index of the caller's buffer or the slot that keys its offset
RECURSIVE bind_values(_, _)
bind_values(vs, s) ==
    IF vs = <<>> THEN s
    ELSE LET v == Head(vs)
             info == buffer_assignments_[v]
             use == <<v, info.index_>>
             s1 == add_value_mem_map(s, <<v, v>>)
             s2 == IF info.kind_ = external_input
                   THEN add_mem_use_external_inputs(s1, use)
                   ELSE IF info.kind_ = external_output
                   THEN add_mem_use_external_outputs(s1, use)
                   ELSE IF info.kind_ = internal_temporary
                   THEN add_mem_use_internal_temporary(s1, use)
                   ELSE add_mem_use_internal_persistent(s1, use)
         IN bind_values(Tail(vs), s2)

\* pass 7, the operations from i on in topological order: the arguments of
\* each, its inputs and its output, are appended
RECURSIVE bind_ops(_, _)
bind_ops(i, s) ==
    IF i > MaxOps THEN s
    ELSE bind_ops(i + 1,
             add_exec_args(s, [src |-> Ascending(graph.ops[i].in),
                               dst |-> i]))

\* pass 7: the slots of both assigners are booked in the registries and the
\* execution argument set is built
prepare_execution_args_set ==
    /\ pc = "prepare_execution_args_set"
    /\ temporary_registry_' = book_slots(temporary_registry_, data_, 0)
    /\ persistent_registry_' =
           book_slots(persistent_registry_,
                      persistent_buffer_assigner_.data_, 0)
    /\ exec_args_set_' =
           bind_ops(1, bind_values(Ascending(Values), exec_args_set_))
    /\ pc' = "done"
    /\ UNCHANGED <<avars, graph, cursor, enable_memory_sharing_, alias_map_,
                   reverse_alias_map_, buffer_assignments_, edge_ref_count,
                   temporary_buffer_ref_count_, persistent_buffer_assigner_>>

\* memory_planner_t::clear(), called once a pass is over
clear ==
    /\ pc = "done"
    /\ alias_map_' = <<>>
    /\ reverse_alias_map_' = <<>>
    /\ buffer_assignments_' = <<>>
    /\ exec_args_set_' = execution_args_set_t
    /\ persistent_buffer_assigner_' = [data_ |-> <<>>, free_ |-> <<>>]
    /\ free_' = <<>>
    /\ data_' = <<>>
    /\ persistent_registry_' = registry_t
    /\ temporary_registry_' = registry_t
    /\ pc' = "cleared"
    /\ UNCHANGED <<match_range_, last, pre_data, pre_free, pre_match_range,
                   live, pre_live,
                   issued, pre_issued, misused, peak, graph, cursor,
                   enable_memory_sharing_, edge_ref_count,
                   temporary_buffer_ref_count_>>

PlanNext ==
    \/ assign_external_inputs_buffer /\ UNCHANGED <<rvars, xvars>>
    \/ assign_external_outputs_buffer /\ UNCHANGED <<rvars, xvars>>
    \/ alias_discovery /\ UNCHANGED <<rvars, xvars>>
    \/ reference_counting /\ UNCHANGED <<rvars, xvars>>
    \/ assign_internal_persistent_buffer /\ UNCHANGED <<rvars, xvars>>
    \/ assign_internal_temporary_buffer /\ UNCHANGED <<rvars, xvars>>
    \/ prepare_execution_args_set /\ UNCHANGED xvars
    \/ clear /\ UNCHANGED xvars

PlanSpec == PlanInit /\ [][PlanNext]_vars

\* ------------------------------------------------ vocabulary of the claims
IsRequest == last.op = "request"

\* the last call was request(size), size # 0, on an assigner with R > 0
IsSearch == IsRequest /\ last.arg # 0 /\ match_range_ > 0

\* the last request returned a slot that already existed
Reused == IsRequest /\ last.ret # NoBuffer /\ last.ret < Len(pre_data)

\* the last request created the slot it returned
Allocated ==
    /\ IsRequest
    /\ last.ret = Len(pre_data)
    /\ Len(data_) = Len(pre_data) + 1

\* recorded maximum size of slot id before the last call
PreSize(id) == pre_data[id + 1].max_bytes_

\* slots that had an entry in the free list before the last call
PreFreeSlots == {pre_free[i].e : i \in 1..Len(pre_free)}

\* number of entries of free list f that refer to slot id
Entries(f, id) == Cardinality({i \in 1..Len(f) : f[i].e = id})

\* C1, as stated: whatever calls were made, an id returned by request was
\* never returned before or was released since, and no live request holds it.
C1_AnySequence ==
    (IsRequest /\ last.ret # NoBuffer) =>
        /\ last.ret \notin pre_issued \/ last.ret \notin pre_live
        /\ last.ret \notin pre_live

\* C1, amended: as long as release was only called with the sentinel or a
\* live id, an id returned by request was never returned before or was
\* released since it was last returned, and no live request holds it.
C1_LiveIdsDistinct == ~misused => C1_AnySequence

\* C1: a released id is returned again while another id is live
C1_Witness ==
    /\ ~misused
    /\ Reused
    /\ last.ret \in pre_issued
    /\ pre_live # {}

\* C4, as stated: the reused slot's recorded size lies in the real-valued
\* window [size / R, size * R].
C4_RealWindow ==
    (IsSearch /\ Reused) =>
        /\ PreSize(last.ret) * match_range_ >= last.arg
        /\ PreSize(last.ret) <= last.arg * match_range_

\* C4, amended: as long as release was only called with the sentinel or a
\* live id, a slot reused by request(size) with R > 0 had a recorded size in
\* [floor(size / R), size * R] (the quotient is the integer quotient).
C4_FloorWindow ==
    (~misused /\ IsSearch /\ Reused) =>
        /\ PreSize(last.ret) >= last.arg \div match_range_
        /\ PreSize(last.ret) <= last.arg * match_range_

\* C4: a reuse while a free slot outside the window was passed over
C4_Witness ==
    /\ ~misused
    /\ IsSearch
    /\ Reused
    /\ \E id \in PreFreeSlots :
           PreSize(id) < last.arg \div match_range_
           \/ PreSize(id) > last.arg * match_range_

\* free slots whose recorded size was in [size, size * R] at the last call
FitAbove ==
    {id \in PreFreeSlots :
        PreSize(id) >= last.arg /\ PreSize(id) <= last.arg * match_range_}

\* the last request returned a slot of FitAbove of the smallest recorded
\* size and took one of its entries off the free list
BestFitAbove ==
    /\ last.ret \in FitAbove
    /\ \A id \in FitAbove : PreSize(last.ret) <= PreSize(id)
    /\ Entries(free_, last.ret) = Entries(pre_free, last.ret) - 1
    /\ Len(free_) = Len(pre_free) - 1

\* C5, as stated: if a free slot has a recorded size in [size, size * R],
\* request returns one of the smallest such size and removes it from the
\* free list.
C5_AnySequence == (IsSearch /\ FitAbove # {}) => BestFitAbove

\* C5, amended: as long as release was only called with the sentinel or a
\* live id, a request(size) with R > 0 that finds a free slot of recorded
\* size in [size, size * R] returns one of the smallest such size and removes
\* it from the free list.
C5_BestFitAbove == (~misused /\ IsSearch /\ FitAbove # {}) => BestFitAbove

\* C5: two free slots of different sizes fit from above
C5_Witness ==
    /\ ~misused
    /\ IsSearch
    /\ \E a, b \in FitAbove : PreSize(a) < PreSize(b)

\* free slots whose recorded size was in [size / R, size), real quotient
FitBelowReal ==
    {id \in PreFreeSlots :
        PreSize(id) * match_range_ >= last.arg /\ PreSize(id) < last.arg}

\* free slots whose recorded size was in [floor(size / R), size)
FitBelow ==
    {id \in PreFreeSlots :
        PreSize(id) >= last.arg \div match_range_ /\ PreSize(id) < last.arg}

\* the last request returned the slot of S of the largest recorded size,
\* upsized to the requested size, or a new slot if S is empty
LargestBelowOrNew(S) ==
    IF S # {}
    THEN /\ last.ret \in S
         /\ \A id \in S : PreSize(id) <= PreSize(last.ret)
         /\ data_[last.ret + 1].max_bytes_ = last.arg
         /\ Len(data_) = Len(pre_data)
    ELSE Allocated

\* C6, as stated, with the window's low bound the real quotient size / R
C6_RealWindow == (IsSearch /\ FitAbove = {}) => LargestBelowOrNew(FitBelowReal)

\* C6, amended: as long as release was only called with the sentinel or a
\* live id, a request(size) with R > 0 that finds no free slot of recorded
\* size in [size, size * R] returns the free slot of the largest recorded
\* size in [floor(size / R), size), upsized to size, and allocates a new slot
\* only if there is none.
C6_LargestBelow ==
    (~misused /\ IsSearch /\ FitAbove = {}) => LargestBelowOrNew(FitBelow)

\* C6: two free slots of different sizes fit from below
C6_Witness ==
    /\ ~misused
    /\ IsSearch
    /\ FitAbove = {}
    /\ \E a, b \in FitBelow : PreSize(a) < PreSize(b)
    /\ Reused

\* C7: over request and release calls no slot's query_size decreases, and
\* query_size(id) is at least the size of every request that returned id.
C7_SizeNeverDecreases ==
    /\ last.op \in {"request", "release"} =>
           /\ Len(data_) >= Len(pre_data)
           /\ \A id \in 0..(Len(pre_data) - 1) :
                  query_size(data_, id) >= query_size(pre_data, id)
    /\ (IsRequest /\ last.ret # NoBuffer) =>
           query_size(data_, last.ret) >= last.arg
    /\ \A id \in 0..(Len(data_) - 1) : query_size(data_, id) >= peak[id + 1]

\* C7: a slot is reused for a smaller size than it holds
C7_Witness == Reused /\ last.arg < PreSize(last.ret)

\* every free-list entry is keyed by the recorded size of its slot
KeyedByCurrentSize ==
    \A i \in 1..Len(free_) : free_[i].key = data_[free_[i].e + 1].max_bytes_

\* release(id) added one entry for id, keyed by its recorded size
FiledUnderCurrentSize ==
    (last.op = "release" /\ last.arg # NoBuffer) =>
        /\ data_ = pre_data
        /\ \E p \in 1..Len(free_) :
               /\ free_[p] = [key |-> data_[last.arg + 1].max_bytes_,
                              e |-> last.arg]
               /\ pre_free = SubSeq(free_, 1, p - 1)
                                 \o SubSeq(free_, p + 1, Len(free_))

\* C8, as stated: release files the slot under its current recorded size,
\* and in every reachable state every entry is keyed by the current size.
C8_AnySequence == FiledUnderCurrentSize /\ KeyedByCurrentSize

\* C8, amended: release files the slot under its current recorded size, and
\* as long as release was only called with the sentinel or a live id, every
\* free-list entry is keyed by the current recorded size of its slot.
C8_KeyedByCurrentSize ==
    FiledUnderCurrentSize /\ (~misused => KeyedByCurrentSize)

\* C8: a slot that grew since it was allocated is released
C8_Witness ==
    /\ ~misused
    /\ last.op = "release"
    /\ last.arg # NoBuffer
    /\ \E i \in 1..Len(free_) :
           /\ free_[i].e = last.arg
           /\ free_[i].key = peak[last.arg + 1]
           /\ \E j \in 1..Len(free_) : free_[j].key < free_[i].key

\* C9: request(0) returns the sentinel and changes nothing, release of the
\* sentinel changes nothing, query_size of the sentinel is 0.
C9_SentinelNoEffect ==
    /\ (IsRequest /\ last.arg = 0) =>
           last.ret = NoBuffer /\ data_ = pre_data /\ free_ = pre_free
    /\ (last.op = "release" /\ last.arg = NoBuffer) =>
           data_ = pre_data /\ free_ = pre_free
    /\ (last.op = "query_size" /\ last.arg = NoBuffer) => last.ret = 0

\* C9: request(0) with R > 0 while the free list holds a slot
C9_Witness ==
    /\ IsRequest
    /\ last.arg = 0
    /\ match_range_ > 0
    /\ pre_free # <<>>

\* C10: with R = 0 a request of a non-zero size returns a new slot with an
\* id never returned before and leaves the free list as it was.
C10_NoReuseAtRangeZero ==
    (match_range_ = 0 /\ IsRequest /\ last.arg # 0) =>
        /\ Allocated
        /\ last.ret \notin pre_issued
        /\ free_ = pre_free
        /\ \A id \in 0..(Len(pre_data) - 1) : data_[id + 1] = pre_data[id + 1]

\* C10: a request with R = 0 while a released slot of that very size is free
C10_Witness ==
    /\ match_range_ = 0
    /\ IsRequest
    /\ last.arg # 0
    /\ \E id \in PreFreeSlots : PreSize(id) = last.arg

\* --------------------------------------------- the planner claims' vocabulary
\* operations that consume value v
Consumers(v) == {i \in Ops : v \in graph.ops[i].in}

\* the last operation that consumes v, or the one that produces it if none
LastUse(v) == CHOOSE i \in Consumers(v) \cup {v} :
                  \A j \in Consumers(v) \cup {v} : j <= i

\* the output of operation v overwrites one of its inputs
IsAlias(v) == v \in Ops /\ graph.ops[v].inplace # {}

\* the value at the end of v's chain of in-place inputs, by the graph
RECURSIVE RootOf(_)
RootOf(v) == IF IsAlias(v) THEN RootOf(InplaceInput(v)) ELSE v

\* v has been given a temporary slot
Temp(v) == Assigned(v) /\ buffer_assignments_[v].kind_ = internal_temporary

\* the last operation that consumes r or a value aliased to r
GroupLastUse(r) ==
    LET uses == {LastUse(w) : w \in {x \in Values : RootOf(x) = r}}
    IN CHOOSE i \in uses : \A j \in uses : j <= i

\* every slot on the free list has reference count zero, and every consumer
\* of every value assigned to it has been visited
ReleasedAtZero ==
    \A k \in 1..Len(free_) :
        /\ temporary_buffer_ref_count_[free_[k].e] = 0
        /\ \A v \in Ops :
               (Temp(v) /\ buffer_assignments_[v].index_ = free_[k].e)
                   => LastUse(v) < cursor

\* two non-aliased values share a temporary slot only if the later one is
\* produced strictly after the last consumption of the earlier one
NoOverlap ==
    \A u, v \in Ops :
        (/\ u < v
         /\ ~IsAlias(u) /\ ~IsAlias(v)
         /\ Temp(u) /\ Temp(v)
         /\ buffer_assignments_[u].index_ = buffer_assignments_[v].index_)
            => LastUse(u) < v

\* C2: during the temporary-buffer pass a slot is on the free list only once
\* its reference count is zero and all consumers of its values were visited,
\* and non-aliased values that share a slot have disjoint live intervals
\* [production, last consumption], the later produced strictly after the
\* earlier one's last consumption.
C2_DisjointLiveIntervals == ReleasedAtZero /\ NoOverlap

\* C2: planning ends with a temporary slot reused by a later value
C2_Witness ==
    /\ pc = "done"
    /\ \E u, v \in Ops :
           /\ u < v
           /\ ~IsAlias(u) /\ ~IsAlias(v)
           /\ Temp(u) /\ Temp(v)
           /\ buffer_assignments_[u].index_ = buffer_assignments_[v].index_

\* an assignment names a buffer that exists
ValidInfo(info) ==
    \/ info.kind_ = external_input /\ info.index_ = 0
    \/ /\ info.kind_ = external_output
       /\ info.index_ \in 0..(Cardinality(graph.outputs) - 1)
    \/ /\ info.kind_ = internal_temporary
       /\ info.index_ \in 0..(Len(data_) - 1)
    \/ /\ info.kind_ = internal_persistent
       /\ info.index_ \in 0..(Len(persistent_buffer_assigner_.data_) - 1)

\* values with a slot of their own in the temporary (persistent) assigner
OwnSlot(kind) ==
    {v \in Ops : /\ Assigned(v)
                 /\ ~IsAlias(v)
                 /\ buffer_assignments_[v].kind_ = kind}

assertm(exp) == exp \/ ndebug

\* ids that are neither the sentinel nor the id of a slot of data_
InvalidIds == Len(data_)..(MaxSlots + 1)

\* a caller calls release(id) with an id that was never created.  A debug
\* build aborts on the assertion.  An NDEBUG build reads data_[id] past the
\* end of the vector: the process crashes, or whatever is found there goes
\* into free_.
ReleaseInvalid ==
    /\ run_state = "running"
    /\ \E id \in InvalidIds :
        /\ ~valid_id(data_, id)
        /\ last' = [op |-> "release", arg |-> id, ret |-> 0]
        /\ IF ~assertm(valid_id(data_, id))
           THEN run_state' = "aborted" /\ free_' = free_
           ELSE \/ run_state' = "crashed" /\ free_' = free_
                \/ \E k \in Sizes \ {0} :
                       /\ free_' = insert(free_, [key |-> k, e |-> id])
                       /\ run_state' = "undefined"
        /\ Remember
        /\ UNCHANGED <<match_range_, data_, live, issued, misused, peak,
                       ndebug, mem_reuse_env, kvars, mem_info, svars, cvars,
                       released, pvars>>

\* a caller calls query_size(id) with an id that was never created: as for
\* release, but what is found past the end of data_ is returned
QuerySizeInvalid ==
    /\ run_state = "running"
    /\ \E id \in InvalidIds :
        /\ ~valid_id(data_, id)
        /\ IF ~assertm(valid_id(data_, id))
           THEN /\ run_state' = "aborted"
                /\ last' = [op |-> "query_size", arg |-> id, ret |-> NoBuffer]
           ELSE \/ /\ run_state' = "crashed"
                   /\ last' = [op |-> "query_size", arg |-> id,
                               ret |-> NoBuffer]
                \/ \E k \in Sizes :
                       /\ run_state' = "undefined"
                       /\ last' = [op |-> "query_size", arg |-> id, ret |-> k]
        /\ Remember
        /\ UNCHANGED <<match_range_, data_, free_, live, issued, misused,
                       peak, ndebug, mem_reuse_env, kvars, mem_info, svars,
                       cvars,
                       released, pvars>>

\* the assigner in either build, called with any id
AssertInit ==
    /\ AssignerInit(MatchRanges)
    /\ PlannerIdle
    /\ ndebug \in BOOLEAN
    /\ run_state = "running"
    /\ EnvIdle
    /\ ArgsIdle
    /\ CloneIdle
    /\ TieIdle
    /\ KernelIdle

AssertNext ==
    \/ run_state = "running" /\ Request /\ UNCHANGED xvars
    \/ run_state = "running" /\ Release /\ UNCHANGED xvars
    \/ run_state = "running" /\ QuerySize /\ UNCHANGED xvars
    \/ run_state = "running" /\ Clear /\ UNCHANGED xvars
    \/ ReleaseInvalid
    \/ QuerySizeInvalid

AssertSpec == AssertInit /\ [][AssertNext]_vars

\* the last call was release or query_size with an id never created
InvalidCall ==
    /\ last.op \in {"release", "query_size"}
    /\ ~valid_id(pre_data, last.arg)

\* C11: release(id) or query_size(id) with an id that is neither the sentinel
\* nor the id of a created slot ends the process at once: the call is not
\* passed over in silence, the free list is as it was and no size has been
\* returned.
C11_InvalidIdIsFatal ==
    InvalidCall =>
        /\ run_state \in {"aborted", "crashed"}
        /\ free_ = pre_free
        /\ last.ret = NoBuffer \/ last.op = "release"

\* it is so in a debug build, where the assertion is compiled in
C11_FatalInDebugBuild == ~ndebug => C11_InvalidIdIsFatal

\* C12: slot ids are dense and stable.  A request that creates a slot creates
\* one and returns the number of slots there were (0, 1, 2, ... without
\* gaps); a request that takes an entry of the free list creates none; and,
\* up to the next clear(), id i stays the id of the (i+1)-th slot of data_,
\* the ids issued being exactly those of the slots of data_.
C12_DenseStableIds ==
    /\ (IsRequest /\ Len(data_) # Len(pre_data)) =>
           /\ Len(data_) = Len(pre_data) + 1
           /\ last.ret = Len(pre_data)
           /\ data_[Len(data_)].id_ = last.ret
    /\ (IsRequest /\ free_ # pre_free) => Len(data_) = Len(pre_data)
    /\ \A i \in 1..Len(data_) : data_[i].id_ = i - 1
    /\ last.op # "clear" =>
           /\ Len(data_) >= Len(pre_data)
           /\ \A i \in 1..Len(pre_data) : data_[i].id_ = pre_data[i].id_
    /\ issued = 0..(Len(data_) - 1)

\* a second slot is created, with id 1, while slot 0 waits in the free list
C12_Witness ==
    /\ Allocated
    /\ last.ret = 1
    /\ pre_free # <<>>
    /\ data_[1].id_ = 0

\* the environment variable switches buffer reuse off
ReuseDisabled == mem_reuse_env # <<>> /\ mem_reuse_env[1] <= 0

BasePointers == {0, 4096}

\* the largest size requested for slot k of the assigner that serves kind
MaxRequested(kind, k) ==
    LET sizes == {graph.bytes[v] :
                     v \in {w \in OwnSlot(kind) :
                               buffer_assignments_[w].index_ = k}}
    IN IF sizes = {} THEN 0
       ELSE CHOOSE x \in sizes : \A y \in sizes : y <= x

\* MaxRequested summed over the slots 0 .. n - 1
RECURSIVE SumRequested(_, _)
SumRequested(kind, n) ==
    IF n = 0 THEN 0
    ELSE MaxRequested(kind, n - 1) + SumRequested(kind, n - 1)

\* region reg, booked from the slots d of the assigner that serves kind, is
\* large enough and gives every slot bytes of its own
RegionHoldsSlots(reg, d, kind) ==
    /\ reg.size_ >= SumRequested(kind, Len(d))
    /\ DOMAIN reg.offset_map_ = 0..(Len(d) - 1)
    /\ \A base \in BasePointers :
        \A j \in 0..(Len(d) - 1) :
            /\ MaxRequested(kind, j) <= query_size(d, j)
            /\ grantor_get(reg, base, j) >= base
            /\ grantor_get(reg, base, j) + MaxRequested(kind, j)
                   <= base + reg.size_
            /\ \A k \in 0..(Len(d) - 1) :
                   j # k =>
                       \/ grantor_get(reg, base, j) + d[j + 1].max_bytes_
                              <= grantor_get(reg, base, k)
                       \/ grantor_get(reg, base, k) + d[k + 1].max_bytes_
                              <= grantor_get(reg, base, j)

\* C14: after a planning pass the size reported for the temporary and for
\* the persistent region is at least the sum over its slots of the largest
\* size requested for the slot, and the byte ranges
\* [offset(slot), offset(slot) + maxBytes(slot)) that a grantor resolves for
\* two distinct slots do not overlap and lie inside the region.
C14_RegionsHoldSlots ==
    pc = "done" =>
        /\ total_internal_temporary_size
               >= SumRequested(internal_temporary, Len(data_))
        /\ total_internal_persistent_size
               >= SumRequested(internal_persistent,
                               Len(persistent_buffer_assigner_.data_))
        /\ RegionHoldsSlots(temporary_registry_, data_, internal_temporary)
        /\ RegionHoldsSlots(persistent_registry_,
                            persistent_buffer_assigner_.data_,
                            internal_persistent)

\* a pass ends with two temporary slots of different sizes, one of which
\* has served two values, in a region padded for alignment
C14_Witness ==
    /\ pc = "done"
    /\ Len(data_) = 2
    /\ data_[1].max_bytes_ # data_[2].max_bytes_
    /\ \E u, v \in OwnSlot(internal_temporary) :
           /\ u # v
           /\ buffer_assignments_[u].index_ = buffer_assignments_[v].index_
    /\ total_internal_temporary_size
           > SumRequested(internal_temporary, Len(data_))

\* what clear() empties: as in a planner that was just constructed
ClearedMembers ==
    /\ alias_map_ = <<>>
    /\ reverse_alias_map_ = <<>>
    /\ buffer_assignments_ = <<>>
    /\ exec_args_set_ = execution_args_set_t
    /\ persistent_buffer_assigner_ = [data_ |-> <<>>, free_ |-> <<>>]
    /\ data_ = <<>>
    /\ free_ = <<>>
    /\ persistent_registry_ = registry_t
    /\ temporary_registry_ = registry_t

\* C15: after clear() the planner is as if newly constructed: the alias map,
\* the reverse alias map, the buffer assignments, the temporary-buffer
\* reference counts, the execution argument set, both assigners and both
\* registries are empty.
C15_ClearResetsAll ==
    pc = "cleared" =>
        /\ ClearedMembers
        /\ temporary_buffer_ref_count_ = <<>>

\* all of it but the reference counts is empty after clear()
C15_AllButRefCounts == pc = "cleared" => ClearedMembers

\* ------------------------------------------------------- get_memory_info
\* A std::string is the sequence of its characters.
MaxIndex == 12      \* buffer indexes of the assignments are 0..MaxIndex

\* the values get_memory_info is asked about; the last one has no assignment
InfoValues == 0..2

\* the characters '0' .. '9'
Digit == <<"0", "1", "2", "3", "4", "5", "6", "7", "8", "9">>

\* std::to_string(n)
RECURSIVE to_string(_)
to_string(n) ==
    IF n < 10 THEN <<Digit[n + 1]>>
    ELSE to_string(n \div 10) \o <<Digit[(n % 10) + 1]>>

persistent_ == <<"p", "e", "r", "s", "i", "s", "t", "e", "n", "t", "_">>

temporary_ == <<"t", "e", "m", "p", "o", "r", "a", "r", "y", "_">>

external_in_ == <<"e", "x", "t", "e", "r", "n", "a", "l", "_", "i", "n", "_">>

external_out_ ==
    <<"e", "x", "t", "e", "r", "n", "a", "l", "_", "o", "u", "t", "_">>

\* faulty get_memory_info: the index is not appended
get_memory_info_no_index(asg, val) ==
    IF val \notin DOMAIN asg THEN <<>>
    ELSE LET info == asg[val]
         IN IF info.kind_ = internal_persistent THEN persistent_
            ELSE IF info.kind_ = internal_temporary THEN temporary_
            ELSE IF info.kind_ = external_input THEN external_in_
            ELSE external_out_

\* get_memory_info(val), asg being buffer_assignments_
get_memory_info(asg, val) ==
    IF val \notin DOMAIN asg THEN <<>>
    ELSE LET info == asg[val]
             str == IF info.kind_ = internal_persistent THEN persistent_
                    ELSE IF info.kind_ = internal_temporary THEN temporary_
                    ELSE IF info.kind_ = external_input THEN external_in_
                    ELSE IF info.kind_ = external_output THEN external_out_
                    ELSE <<>>
         IN str \o to_string(info.index_)

\* a planner whose passes have assigned buffers to some of the values
InfoInit ==
    /\ AssignerInit({PlannerMatchRange})
    /\ BuildIdle
    /\ EnvIdle
    /\ ArgsIdle
    /\ CloneIdle
    /\ TieIdle
    /\ KernelIdle
    /\ NothingPrepared
    /\ graph = [ops |-> <<>>, bytes |-> <<>>, constant |-> {}, outputs |-> {}]
    /\ pc = "done"
    /\ cursor = 0
    /\ enable_memory_sharing_ = TRUE
    /\ alias_map_ = <<>>
    /\ reverse_alias_map_ = <<>>
    /\ \E S \in SUBSET (InfoValues \ {2}) :
           buffer_assignments_ \in
               [S -> {assign_info_t(k, i) :
                         k \in {external_input, external_output,
                                internal_temporary, internal_persistent},
                         i \in 0..MaxIndex}]
    /\ edge_ref_count = <<>>
    /\ temporary_buffer_ref_count_ = <<>>
    /\ persistent_buffer_assigner_ = [data_ |-> <<>>, free_ |-> <<>>]

\* a caller calls get_memory_info(val)
GetMemoryInfo ==
    \E val \in InfoValues :
        /\ mem_info' = [called |-> TRUE, val |-> val,
                        str |-> get_memory_info(buffer_assignments_, val)]
        /\ UNCHANGED <<avars, pvars, bvars, mem_reuse_env, kvars, svars, cvars,
                       released>>

InfoNext == GetMemoryInfo

InfoSpec == InfoInit /\ [][InfoNext]_vars

\* the four buffer kinds
BufferKinds ==
    {external_input, external_output, internal_temporary, internal_persistent}

\* the prefix the design gives to a buffer kind
KindPrefix(kind) ==
    CASE kind = internal_persistent -> persistent_
      [] kind = internal_temporary -> temporary_
      [] kind = external_input -> external_in_
      [] kind = external_output -> external_out_

\* the number that the digits q denote
RECURSIVE DecimalValue(_)
DecimalValue(q) ==
    IF q = <<>> THEN 0
    ELSE LET c == q[Len(q)]
         IN 10 * DecimalValue(SubSeq(q, 1, Len(q) - 1))
                + (CHOOSE d \in 0..9 : Digit[d + 1] = c)

\* q is the decimal numeral of n
IsDecimalOf(q, n) ==
    /\ q # <<>>
    /\ \A k \in 1..Len(q) : \E d \in 0..9 : Digit[d + 1] = q[k]
    /\ Len(q) > 1 => q[1] # "0"
    /\ DecimalValue(q) = n

\* str is the prefix of kind followed by the decimal numeral of index
HasForm(str, kind, index) ==
    LET p == KindPrefix(kind)
    IN /\ Len(str) > Len(p)
       /\ SubSeq(str, 1, Len(p)) = p
       /\ IsDecimalOf(SubSeq(str, Len(p) + 1, Len(str)), index)

\* str has exactly one of the four forms: that of kind and index
OnlyForm(str, kind, index) ==
    /\ HasForm(str, kind, index)
    /\ \A k \in BufferKinds : \A i \in 0..(MaxIndex + 1) :
           HasForm(str, k, i) => k = kind /\ i = index

\* C16, as stated: for every value, get_memory_info returns exactly one of
\* persistent_<i>, temporary_<i>, external_in_<i>, external_out_<i>.
C16_EveryValue ==
    mem_info.called =>
        \E k \in BufferKinds : \E i \in 0..MaxIndex :
            /\ OnlyForm(mem_info.str, k, i)
            /\ Assigned(mem_info.val) =>
                   buffer_assignments_[mem_info.val] = assign_info_t(k, i)

\* C16: for every value that has a buffer assignment, get_memory_info returns
\* exactly one of the four forms, the prefix being that of the kind of the
\* assignment and <i> the decimal numeral of its index; for a value without
\* an assignment it returns the empty string.
C16_AssignedValue ==
    mem_info.called =>
        IF Assigned(mem_info.val)
        THEN OnlyForm(mem_info.str,
                      buffer_assignments_[mem_info.val].kind_,
                      buffer_assignments_[mem_info.val].index_)
        ELSE mem_info.str = <<>>

\* the string of a caller's output buffer with an index of two digits
C16_Witness ==
    /\ mem_info.called
    /\ Assigned(mem_info.val)
    /\ buffer_assignments_[mem_info.val] = assign_info_t(external_output, 10)
    /\ Len(mem_info.str) = Len(external_out_) + 2

\* ------------------------------------- calls made on an execution_args_set_t
MaxEntries == 2     \* no entry is added to a set that holds this many

\* the getters
get_exec_args(s) == s.topo_ordered_exec_args_

get_value_mem_map(s) == s.value_mem_map_

get_mems_use_external_inputs(s) == s.mems_use_external_inputs_

get_mems_use_external_outputs(s) == s.mems_use_external_outputs_

get_mems_use_internal_temporary(s) == s.mems_use_internal_temporary_

get_mems_use_internal_persistent(s) == s.mems_use_internal_persistent_

\* memory objects, values, argument lists and (memory, index) pairs that the
\* callers pass
ArgMems == 1..2

ArgValues == 0..1

ExecArgs == {[src |-> <<1>>, dst |-> 2], [src |-> <<2>>, dst |-> 1]}

MemUses == {<<1, 0>>, <<2, 1>>}

\* the number of entries of set s
EntryCount(s) ==
    Len(s.topo_ordered_exec_args_) + Cardinality(DOMAIN s.value_mem_map_)
        + Len(s.mems_use_external_inputs_) + Len(s.mems_use_external_outputs_)
        + Len(s.mems_use_internal_temporary_)
        + Len(s.mems_use_internal_persistent_)

\* the planner's state but for exec_args_set_
pvars_but_args ==
    <<graph, pc, cursor, enable_memory_sharing_, alias_map_,
      reverse_alias_map_, buffer_assignments_, edge_ref_count,
      temporary_buffer_ref_count_, persistent_buffer_assigner_,
      persistent_registry_, temporary_registry_>>

\* a call op(arg) that leaves set s2 and returns ret
ArgsCall(op, arg, s2, ret) ==
    /\ exec_args_set_' = s2
    /\ args_last' = [op |-> op, arg |-> arg, ret |-> ret,
                     pre |-> exec_args_set_]
    /\ first_mapped' = IF op = "add_value_mem_map"
                           /\ arg[1] \notin DOMAIN first_mapped
                       THEN Put(first_mapped, arg[1], arg[2])
                       ELSE first_mapped
    /\ UNCHANGED <<avars, pvars_but_args, bvars, mem_reuse_env, kvars,
                   mem_info,
                   cvars, released>>

AddExecArgs ==
    /\ EntryCount(exec_args_set_) < MaxEntries
    /\ \E args \in ExecArgs :
           /\ ArgsCall("add_exec_args", args,
                       add_exec_args(exec_args_set_, args), <<>>)
           /\ args_added' = Append(args_added, args)

AddValueMemMap ==
    /\ EntryCount(exec_args_set_) < MaxEntries
    /\ \E key \in ArgValues, mem \in ArgMems :
           ArgsCall("add_value_mem_map", <<key, mem>>,
                    add_value_mem_map(exec_args_set_, <<key, mem>>), <<>>)
    /\ UNCHANGED args_added

AddMemUseExternalInputs ==
    /\ EntryCount(exec_args_set_) < MaxEntries
    /\ \E u \in MemUses :
           ArgsCall("add_mem_use_external_inputs", u,
                    add_mem_use_external_inputs(exec_args_set_, u), <<>>)
    /\ UNCHANGED args_added

AddMemUseExternalOutputs ==
    /\ EntryCount(exec_args_set_) < MaxEntries
    /\ \E u \in MemUses :
           ArgsCall("add_mem_use_external_outputs", u,
                    add_mem_use_external_outputs(exec_args_set_, u), <<>>)
    /\ UNCHANGED args_added

AddMemUseInternalTemporary ==
    /\ EntryCount(exec_args_set_) < MaxEntries
    /\ \E u \in MemUses :
           ArgsCall("add_mem_use_internal_temporary", u,
                    add_mem_use_internal_temporary(exec_args_set_, u), <<>>)
    /\ UNCHANGED args_added

AddMemUseInternalPersistent ==
    /\ EntryCount(exec_args_set_) < MaxEntries
    /\ \E u \in MemUses :
           ArgsCall("add_mem_use_internal_persistent", u,
                    add_mem_use_internal_persistent(exec_args_set_, u), <<>>)
    /\ UNCHANGED args_added

\* a caller calls one of the getters
Getters ==
    /\ \E g \in {"get_exec_args", "get_value_mem_map",
                 "get_mems_use_external_inputs",
                 "get_mems_use_external_outputs",
                 "get_mems_use_internal_temporary",
                 "get_mems_use_internal_persistent"} :
           ArgsCall(g, <<>>, exec_args_set_,
               CASE g = "get_exec_args" -> get_exec_args(exec_args_set_)
                 [] g = "get_value_mem_map" ->
                        get_value_mem_map(exec_args_set_)
                 [] g = "get_mems_use_external_inputs" ->
                        get_mems_use_external_inputs(exec_args_set_)
                 [] g = "get_mems_use_external_outputs" ->
                        get_mems_use_external_outputs(exec_args_set_)
                 [] g = "get_mems_use_internal_temporary" ->
                        get_mems_use_internal_temporary(exec_args_set_)
                 [] g = "get_mems_use_internal_persistent" ->
                        get_mems_use_internal_persistent(exec_args_set_))
    /\ UNCHANGED args_added

\* a caller calls find_value_mem_map(key, mem), mem being an empty memory
\* object (0) or one that the caller has already
FindValueMemMap ==
    /\ \E key \in ArgValues, mem \in {0} \cup ArgMems :
           ArgsCall("find_value_mem_map", <<key, mem>>, exec_args_set_,
                    find_value_mem_map(exec_args_set_, key, mem))
    /\ UNCHANGED args_added

\* the execution_args_set_t of a planner that was just constructed
ArgsInit ==
    /\ AssignerInit({PlannerMatchRange})
    /\ PlannerIdle
    /\ BuildIdle
    /\ EnvIdle
    /\ ArgsIdle
    /\ CloneIdle
    /\ TieIdle
    /\ KernelIdle

ArgsNext ==
    \/ AddExecArgs
    \/ AddValueMemMap
    \/ AddMemUseExternalInputs
    \/ AddMemUseExternalOutputs
    \/ AddMemUseInternalTemporary
    \/ AddMemUseInternalPersistent
    \/ Getters
    \/ FindValueMemMap

ArgsSpec == ArgsInit /\ [][ArgsNext]_vars

\* the containers of an execution_args_set_t
Containers == DOMAIN execution_args_set_t

\* the container that each adder fills
AdderContainer ==
    [add_exec_args |-> "topo_ordered_exec_args_",
     add_mem_use_external_inputs |-> "mems_use_external_inputs_",
     add_mem_use_external_outputs |-> "mems_use_external_outputs_",
     add_mem_use_internal_temporary |-> "mems_use_internal_temporary_",
     add_mem_use_internal_persistent |-> "mems_use_internal_persistent_"]

\* the last call left every container but c as it was
OthersKept(c) ==
    \A o \in Containers \ {c} : exec_args_set_[o] = args_last.pre[o]

\* the last call, of an adder of a vector, put its argument behind the
\* entries of its own vector and touched nothing else
VectorAdderAppends ==
    args_last.op \in DOMAIN AdderContainer =>
        LET c == AdderContainer[args_last.op]
        IN /\ exec_args_set_[c] = Append(args_last.pre[c], args_last.arg)
           /\ OthersKept(c)

\* the last call, of add_value_mem_map, added the mapping of its argument
\* to those the map had and touched nothing else
MapAdderAddsOne ==
    args_last.op = "add_value_mem_map" =>
        LET old == args_last.pre.value_mem_map_
            new == exec_args_set_.value_mem_map_
        IN /\ DOMAIN new = DOMAIN old \cup {args_last.arg[1]}
           /\ Cardinality(DOMAIN new) = Cardinality(DOMAIN old) + 1
           /\ new[args_last.arg[1]] = args_last.arg[2]
           /\ \A k \in DOMAIN old : new[k] = old[k]
           /\ OthersKept("value_mem_map_")

\* the same, unless the value had a mapping: then the set is as it was
MapAdderAddsOneIfNew ==
    (args_last.op = "add_value_mem_map"
         /\ args_last.arg[1] \in DOMAIN args_last.pre.value_mem_map_)
        \/ MapAdderAddsOne

\* get_exec_args returns the argument lists in the order they were added,
\* and no getter or finder changes the set
ReadersOnlyRead ==
    /\ args_last.op = "get_exec_args" => args_last.ret = args_added
    /\ args_last.op = "find_value_mem_map" =>
           LET key == args_last.arg[1]
           IN IF key \in DOMAIN exec_args_set_.value_mem_map_
              THEN args_last.ret =
                       [ret |-> TRUE, mem |-> exec_args_set_.value_mem_map_[key]]
              ELSE args_last.ret = [ret |-> FALSE, mem |-> args_last.arg[2]]
    /\ (args_last.op \notin DOMAIN AdderContainer
            /\ args_last.op # "add_value_mem_map") =>
           exec_args_set_ = args_last.pre

\* C17, as stated: every add_* call adds exactly one entry to its own
\* container and leaves the entries added before and the other containers
\* as they were; get_exec_args returns the bindings in the order added;
\* getters and find_value_mem_map do not change the set.
C17_EveryAddAddsOne ==
    /\ VectorAdderAppends
    /\ MapAdderAddsOne
    /\ ReadersOnlyRead

\* C17: every add_* call adds exactly one entry to its own container,
\* except that add_value_mem_map adds none (and changes nothing) when the
\* value already has a mapping; the entries added before and the other
\* containers are left as they were; get_exec_args returns the bindings in
\* the order added; getters and find_value_mem_map do not change the set.
C17_AppendOnly ==
    /\ VectorAdderAppends
    /\ MapAdderAddsOneIfNew
    /\ ReadersOnlyRead
    /\ (args_last.op = "add_value_mem_map"
            /\ args_last.arg[1] \in DOMAIN args_last.pre.value_mem_map_) =>
           exec_args_set_ = args_last.pre

\* get_exec_args returns two argument lists, added in turn
C17_Witness ==
    /\ args_last.op = "get_exec_args"
    /\ Len(args_last.ret) = 2
    /\ args_last.ret[1] # args_last.ret[2]

\* --------------------------------------------- replicas of the argument set
\* A dnnl::memory is a handle on a memory object: copying it shares the
\* object.  Memory object m is the m-th element of mem_heap, which holds its
\* data handle (0: none).
MaxMems == 2        \* memory objects of the planner's execution_args_set_t

\* the memory objects that set s binds values to
MemsOf(s) == {s.value_mem_map_[v] : v \in DOMAIN s.value_mem_map_}

\* set s with every memory object m replaced by f[m]
Renamed(s, f) ==
    LET use(q) == [k \in 1..Len(q) |-> <<f[q[k][1]], q[k][2]>>]
    IN [topo_ordered_exec_args_ |->
            [k \in 1..Len(s.topo_ordered_exec_args_) |->
                LET a == s.topo_ordered_exec_args_[k]
                IN [src |-> [j \in 1..Len(a.src) |-> f[a.src[j]]],
                    dst |-> f[a.dst]]],
        value_mem_map_ |->
            [v \in DOMAIN s.value_mem_map_ |-> f[s.value_mem_map_[v]]],
        mems_use_external_inputs_ |-> use(s.mems_use_external_inputs_),
        mems_use_external_outputs_ |-> use(s.mems_use_external_outputs_),
        mems_use_internal_temporary_ |-> use(s.mems_use_internal_temporary_),
        mems_use_internal_persistent_ |->
            use(s.mems_use_internal_persistent_)]

\* faulty clone: the memory handles are copied, not the objects
clone_shallow(s, heap) == [set |-> s, heap |-> heap]

\* clone(): a memory object of its own is made for every value of the map,
\* without a data handle, and every container is copied with the new
\* objects in the places of the old ones
clone(s, heap) ==
    LET old == Ascending(MemsOf(s))
        f == [m \in MemsOf(s) |-> Len(heap) + IndexOf(old, m)]
    IN [set |-> Renamed(s, f),
        heap |-> heap \o [k \in 1..Len(old) |-> 0]]

\* the (memory, index) pairs of set s in the order a thread binds them
MemUseSeq(s) ==
    s.mems_use_external_inputs_ \o s.mems_use_external_outputs_
        \o s.mems_use_internal_temporary_ \o s.mems_use_internal_persistent_

\* the address of the buffer thread t has for the k-th pair
HandleOf(t, k) == 10 * t + k

\* the set that planning leaves for values 1 .. n of the kinds given: each
\* value has a memory object and an entry in the list of its kind, and one
\* operation reads value 1 and writes value n
RECURSIVE planned_set(_, _, _)
planned_set(kinds, v, s) ==
    IF v > Len(kinds)
    THEN add_exec_args(s, [src |-> <<1>>, dst |-> Len(kinds)])
    ELSE LET s1 == add_value_mem_map(s, <<v, v>>)
             use == <<v, v - 1>>
         IN planned_set(kinds, v + 1,
                IF kinds[v] = external_input
                THEN add_mem_use_external_inputs(s1, use)
                ELSE IF kinds[v] = external_output
                THEN add_mem_use_external_outputs(s1, use)
                ELSE IF kinds[v] = internal_temporary
                THEN add_mem_use_internal_temporary(s1, use)
                ELSE add_mem_use_internal_persistent(s1, use))

\* planning is over; no thread has started
CloneInit ==
    /\ AssignerInit({PlannerMatchRange})
    /\ BuildIdle
    /\ EnvIdle
    /\ TieIdle
    /\ KernelIdle
    /\ persistent_registry_ = registry_t
    /\ temporary_registry_ = registry_t
    /\ graph = [ops |-> <<>>, bytes |-> <<>>, constant |-> {}, outputs |-> {}]
    /\ pc = "done"
    /\ cursor = 0
    /\ enable_memory_sharing_ = TRUE
    /\ alias_map_ = <<>>
    /\ reverse_alias_map_ = <<>>
    /\ buffer_assignments_ = <<>>
    /\ edge_ref_count = <<>>
    /\ temporary_buffer_ref_count_ = <<>>
    /\ persistent_buffer_assigner_ = [data_ |-> <<>>, free_ |-> <<>>]
    /\ \E n \in 1..MaxMems :
        \E kinds \in [1..n -> {external_input, external_output,
                               internal_temporary, internal_persistent}] :
            /\ exec_args_set_ = planned_set(kinds, 1, execution_args_set_t)
            /\ mem_heap = [m \in 1..n |-> 0]
    /\ args_last = [op |-> "new", arg |-> <<>>, ret |-> <<>>,
                    pre |-> exec_args_set_]
    /\ args_added = <<>>
    /\ first_mapped = exec_args_set_.value_mem_map_
    /\ replica = [t \in Threads |-> execution_args_set_t]
    /\ tpc = [t \in Threads |-> [at |-> "idle", k |-> 0, seen |-> <<>>]]

\* thread t takes its replica of the planner's set
Clone(t) ==
    /\ tpc[t].at = "idle"
    /\ LET r == clone(exec_args_set_, mem_heap)
       IN /\ replica' = [replica EXCEPT ![t] = r.set]
          /\ mem_heap' = r.heap
          /\ args_last' = [op |-> "clone", arg |-> t, ret |-> r.set,
                           pre |-> exec_args_set_]
    /\ tpc' = [tpc EXCEPT ![t] = [at |-> "bind", k |-> 1, seen |-> <<>>]]
    /\ UNCHANGED <<avars, pvars, bvars, mem_reuse_env, kvars, mem_info,
                   args_added,
                   first_mapped, released>>

\* thread t binds its buffer to the next memory object of its replica
Bind(t) ==
    /\ tpc[t].at = "bind"
    /\ tpc[t].k <= Len(MemUseSeq(replica[t]))
    /\ mem_heap' = [mem_heap EXCEPT ![MemUseSeq(replica[t])[tpc[t].k][1]] =
                                        HandleOf(t, tpc[t].k)]
    /\ tpc' = [tpc EXCEPT ![t].k = @ + 1]
    /\ UNCHANGED <<avars, pvars, bvars, mem_reuse_env, kvars, mem_info, svars,
                   replica, released>>

\* thread t executes: it reads the data handles of its replica's objects
Execute(t) ==
    /\ tpc[t].at = "bind"
    /\ tpc[t].k > Len(MemUseSeq(replica[t]))
    /\ tpc' = [tpc EXCEPT ![t] =
                  [at |-> "done", k |-> 0,
                   seen |-> [k \in 1..Len(MemUseSeq(replica[t])) |->
                                mem_heap[MemUseSeq(replica[t])[k][1]]]]]
    /\ UNCHANGED <<avars, pvars, bvars, mem_reuse_env, kvars, mem_info, svars,
                   mem_heap, replica, released>>

CloneNext ==
    \/ \E t \in Threads : Clone(t)
    \/ \E t \in Threads : Bind(t)
    \/ \E t \in Threads : Execute(t)

CloneSpec == CloneInit /\ [][CloneNext]_vars

\* every memory object that set s mentions, in any container
AllMemsOf(s) ==
    MemsOf(s)
        \cup {MemUseSeq(s)[k][1] : k \in 1..Len(MemUseSeq(s))}
        \cup UNION {{a.dst} \cup {a.src[j] : j \in 1..Len(a.src)} :
                       a \in {s.topo_ordered_exec_args_[k] :
                                 k \in 1..Len(s.topo_ordered_exec_args_)}}

\* thread t has its replica
Started(t) == tpc[t].at # "idle"

\* the replica of t is the planner's set but for the memory objects: the
\* same argument lists in the same order, the same values, and the same
\* indexes and offset keys in the same lists
SameStructure(t) ==
    \E f \in [AllMemsOf(exec_args_set_) -> AllMemsOf(replica[t])] :
        /\ \A m1, m2 \in DOMAIN f : f[m1] = f[m2] => m1 = m2
        /\ Renamed(exec_args_set_, f) = replica[t]

\* C18: a replica made by clone() has the argument lists of the planner's
\* set in the same order and the same kinds, indexes and offset keys, and
\* shares no memory object with the planner's set or with another replica;
\* however two threads that each bind their buffers into their own replica
\* are interleaved, each reads back its own bindings only, and the planner's
\* set and the data handles of its memory objects are as they were.
C18_ReplicasAreIndependent ==
    /\ exec_args_set_ = args_last.pre
    /\ \A m \in AllMemsOf(exec_args_set_) : mem_heap[m] = 0
    /\ \A t \in Threads :
           Started(t) =>
               /\ SameStructure(t)
               /\ AllMemsOf(replica[t]) \cap AllMemsOf(exec_args_set_) = {}
               /\ \A u \in Threads \ {t} :
                      Started(u) =>
                          AllMemsOf(replica[t]) \cap AllMemsOf(replica[u]) = {}
               /\ \A k \in 1..Len(MemUseSeq(replica[t])) :
                      mem_heap[MemUseSeq(replica[t])[k][1]]
                          \in {0, HandleOf(t, k)}
               /\ tpc[t].at = "done" =>
                      tpc[t].seen = [k \in 1..Len(MemUseSeq(replica[t])) |->
                                        HandleOf(t, k)]

\* both threads have bound two buffers each and have executed
C18_Witness ==
    /\ \A t \in Threads : tpc[t].at = "done" /\ Len(tpc[t].seen) = 2
    /\ tpc[1].seen # tpc[2].seen

\* ------------------------------------------- the order in which slots were
\* released.  sequence q without its first element equal to x
RemoveFirst(q, x) ==
    IF \E k \in 1..Len(q) : q[k] = x
    THEN LET p == CHOOSE k \in 1..Len(q) :
                      q[k] = x /\ \A j \in 1..(k - 1) : q[j] # x
         IN SubSeq(q, 1, p - 1) \o SubSeq(q, p + 1, Len(q))
    ELSE q

\* what the assigner's calls do to the order of release: release puts the
\* slot last, a request that takes an entry off the free list takes the
\* slot out, clear() forgets all
Releases(now) == released' = [now |-> now, pre |-> released.now]

\* all but the order of release of what neither assigner nor planner owns
xvars_but_released == <<bvars, mem_reuse_env, kvars, mem_info, svars, cvars>>

TieNext ==
    \/ /\ Request
       /\ Releases(IF free_' # free_ THEN RemoveFirst(released.now, last'.ret)
                   ELSE released.now)
       /\ UNCHANGED xvars_but_released
    \/ /\ Release
       /\ Releases(IF last'.arg = NoBuffer THEN released.now
                   ELSE Append(released.now, last'.arg))
       /\ UNCHANGED xvars_but_released
    \/ /\ QuerySize
       /\ Releases(released.now)
       /\ UNCHANGED xvars_but_released
    \/ /\ Clear
       /\ Releases(<<>>)
       /\ UNCHANGED xvars_but_released

\* an assigner with the match range the planner constructs its two with
TieInit ==
    /\ AssignerInit({PlannerMatchRange})
    /\ PlannerIdle
    /\ BuildIdle
    /\ EnvIdle
    /\ ArgsIdle
    /\ CloneIdle
    /\ TieIdle
    /\ KernelIdle

TieSpec == TieInit /\ [][TieNext]_vars

\* slot a was released before slot b, both being on the free list when the
\* last call was made
ReleasedBefore(a, b) ==
    \E i, j \in 1..Len(released.pre) :
        i < j /\ released.pre[i] = a /\ released.pre[j] = b

\* the free slots whose recorded size was that of the slot the last request
\* returned
Ties == {id \in PreFreeSlots : PreSize(id) = PreSize(last.ret)}

\* the last request returned the first entry of the free list that is not
\* smaller than the request, and of the free slots of that recorded size the
\* one released first
FirstOfTies ==
    /\ \E k \in 1..Len(pre_free) :
           /\ pre_free[k].e = last.ret
           /\ pre_free[k].key >= last.arg
           /\ \A j \in 1..(k - 1) : pre_free[j].key < last.arg
    /\ \A id \in Ties \ {last.ret} : ReleasedBefore(last.ret, id)

\* the ascending scan of the last request found an entry: one is filed
\* under a size in [size, size * R]
AscendingHit ==
    \E k \in 1..Len(pre_free) :
        /\ pre_free[k].key >= last.arg
        /\ pre_free[k].key <= last.arg * match_range_

\* C19, as stated: whatever calls were made, when the ascending scan finds a
\* slot, the slot returned is the first in the iteration order of the free
\* list, which among the free slots of its recorded size is the one released
\* earliest.
C19_AnySequence == (IsSearch /\ AscendingHit) => FirstOfTies

\* C19: as long as release was only called with the sentinel or a live id,
\* when the ascending scan of request finds a slot, the slot returned is the
\* first in the iteration order of the free list, which among the free
\* slots of its recorded size is the one released earliest.
C19_EarliestReleasedOfTies ==
    (~misused /\ IsSearch /\ AscendingHit) => FirstOfTies

\* two free slots of the same recorded size fit from above; the one that
\* is returned is not the one with the smaller id
C19_Witness ==
    /\ ~misused
    /\ IsSearch
    /\ AscendingHit
    /\ \E id \in Ties : id < last.ret

\* C20: clear() empties the slot table and the free list and leaves the match
\* range as it was; the next request of a size other than 0 after clear()
\* returns id 0, the only slot then being slot 0 with the requested size
\* recorded; and a request that returns a slot without creating one returns
\* a slot that was issued since the last clear(), never one from before it.
C20_ClearEmpties ==
    /\ last.op = "clear" =>
           /\ data_ = <<>>
           /\ free_ = <<>>
           /\ match_range_ = pre_match_range
           /\ \A size \in Sizes \ {0} :
                  LET r == request(data_, free_, match_range_, size)
                  IN /\ r.ret = 0
                     /\ r.data = <<buffer_info_t(0, size)>>
                     /\ r.free = <<>>
    /\ (IsRequest /\ last.arg # 0 /\ pre_issued = {}) =>
           /\ last.ret = 0
           /\ data_ = <<buffer_info_t(0, last.arg)>>
    /\ (IsRequest /\ last.ret # NoBuffer /\ Len(data_) = Len(pre_data)) =>
           last.ret \in pre_issued

\* clear() was called on an assigner with two slots, one of them free
C20_Witness ==
    /\ last.op = "clear"
    /\ Len(pre_data) = 2
    /\ pre_free # <<>>
    /\ data_ = <<>>

\* ---------------------------------------------------------------------
\* C21: the Value-to-memory map is write-once per Value.  In every state the
\* map holds, for each Value that add_value_mem_map was called for, the memory
\* of the first such call, and nothing else; add_value_mem_map for a Value
\* that already has a mapping leaves the map as it was; find_value_mem_map
\* returns false and leaves its output argument as the caller passed it for a
\* Value with no mapping, and otherwise returns true with the first mapping
\* recorded for that Value.
C21_WriteOncePerValue ==
    /\ get_value_mem_map(exec_args_set_) = first_mapped
    /\ (args_last.op = "add_value_mem_map"
            /\ args_last.arg[1] \in DOMAIN args_last.pre.value_mem_map_) =>
           /\ get_value_mem_map(exec_args_set_) =
                  args_last.pre.value_mem_map_
           /\ OthersKept("value_mem_map_")
    /\ args_last.op = "find_value_mem_map" =>
           LET key == args_last.arg[1]
           IN IF key \in DOMAIN first_mapped
              THEN /\ args_last.ret.ret = TRUE
                   /\ args_last.ret.mem = first_mapped[key]
              ELSE /\ args_last.ret.ret = FALSE
                   /\ args_last.ret.mem = args_last.arg[2]

\* add_value_mem_map was just called with another memory for a Value that
\* had a mapping
C21_Witness ==
    /\ args_last.op = "add_value_mem_map"
    /\ args_last.arg[1] \in DOMAIN args_last.pre.value_mem_map_
    /\ args_last.arg[2] # args_last.pre.value_mem_map_[args_last.arg[1]]

\* ---------------------------------------------------------------------
\* sycl_ocl_gpu_kernel_t::parallel_for (src/sycl/sycl_ocl_gpu_kernel.cpp)

\* the longest argument list and the most command groups submitted
MaxArgs == 2

MaxSubmits == 2

\* the sizes of the scalar arguments: those of the four cases of
\* set_scalar_arg and one that is none of them
ScalarSizes == {1, 2, 4, 8, 3}

\* kernel arguments: a global argument has a memory storage that is empty
\* ("null") or is of memory_api_kind_t buffer or usm; the others are scalars
KernelArgs ==
    {[is_global |-> TRUE, kind |-> k, size |-> 0, value |-> 1] :
         k \in {"null", "buffer", "usm"}}
    \cup {[is_global |-> FALSE, kind |-> "scalar", size |-> n, value |-> 7] :
              n \in ScalarSizes}

\* what range.is_zero() and range.local_range() tell of an nd_range_t
NdRanges == [is_zero : BOOLEAN, local_range : BOOLEAN]

\* arg_list.nargs() and arg_list.get(i)
nargs(list) == Len(list)

get(list, i) == list[i + 1]

\* cgh.set_arg(index, v): the handler keeps the calls in the order made
set_arg(cgh, index, v) == Append(cgh, [index |-> index, v |-> v])

\* faulty set_scalar_arg: the scalar is always bound at index 0
set_scalar_arg_at_zero(cgh, index, size, value) ==
    IF size \in {1, 2, 4, 8}
    THEN [cgh |-> set_arg(cgh, 0, [what |-> "scalar", bits |-> 8 * size,
                                   val |-> value]),
          end |-> "ok"]
    ELSE [cgh |-> cgh, end |-> IF ndebug THEN "throw" ELSE "abort"]

\* set_scalar_arg(cgh, index, size, value): a size that is not that of
\* uint8_t .. uint64_t fails the assertion, and throws if that is compiled out
set_scalar_arg(cgh, index, size, value) ==
    IF size \in {1, 2, 4, 8}
    THEN [cgh |-> set_arg(cgh, index, [what |-> "scalar", bits |-> 8 * size,
                                       val |-> value]),
          end |-> "ok"]
    ELSE [cgh |-> cgh, end |-> IF ndebug THEN "throw" ELSE "abort"]

\* the body of the loop over the arguments, for argument i
bind_arg(arg, i, cgh) ==
    IF arg.is_global
    THEN IF arg.kind # "null"
         THEN CASE arg.kind = "buffer" ->
                       [cgh |-> set_arg(cgh, i, [what |-> "accessor",
                                                 bits |-> 0,
                                                 val |-> arg.value]),
                        end |-> "ok"]
                [] arg.kind = "usm" /\ sycl_intel ->
                       [cgh |-> set_arg(cgh, i, [what |-> "usm_ptr",
                                                 bits |-> 0,
                                                 val |-> arg.value]),
                        end |-> "ok"]
                [] OTHER ->
                       [cgh |-> cgh, end |-> IF ndebug THEN "ok" ELSE "abort"]
         ELSE [cgh |-> set_arg(cgh, i, [what |-> "nullptr", bits |-> 0,
                                        val |-> 0]),
               end |-> "ok"]
    ELSE set_scalar_arg(cgh, i, arg.size, arg.value)

\* for (int i = 0; i < arg_list.nargs(); ++i), from i on
RECURSIVE bind_args(_, _, _)
bind_args(list, i, cgh) ==
    IF i < nargs(list)
    THEN LET b == bind_arg(get(list, i), i, cgh)
         IN IF b.end = "ok" THEN bind_args(list, i + 1, b.cgh) ELSE b
    ELSE [cgh |-> cgh, end |-> "ok"]

\* parallel_for(stream, range, arg_list): the queue of the stream after the
\* call and how the call ends.  A command group function that does not
\* return submits nothing.
parallel_for(q, range, list) ==
    IF range.is_zero THEN [queue |-> q, ret |-> "success"]
    ELSE LET b == bind_args(list, 0, <<>>)
         IN IF b.end = "ok"
            THEN [queue |-> Append(q, [args |-> b.cgh,
                                       launch |-> IF range.local_range
                                                  THEN "nd_range"
                                                  ELSE "range"]),
                  ret |-> "success"]
            ELSE [queue |-> q, ret |-> b.end]

\* a kernel with its argument list, in a library built with or without
\* NDEBUG and MKLDNN_SYCL_INTEL
KernelInit ==
    /\ AssignerInit({PlannerMatchRange})
    /\ PlannerIdle
    /\ run_state = "running"
    /\ ndebug \in BOOLEAN
    /\ EnvIdle
    /\ ArgsIdle
    /\ CloneIdle
    /\ TieIdle
    /\ sycl_intel \in BOOLEAN
    /\ \E n \in 0..MaxArgs : arg_list \in [1..n -> KernelArgs]
    /\ queue = <<>>
    /\ kernel_last = [called |-> FALSE, range |-> <<>>, ret |-> <<>>,
                      pre |-> <<>>]

\* a caller runs the kernel over some range
ParallelFor ==
    /\ run_state = "running"
    /\ Len(queue) < MaxSubmits
    /\ \E range \in NdRanges :
           LET r == parallel_for(queue, range, arg_list)
           IN /\ queue' = r.queue
              /\ kernel_last' = [called |-> TRUE, range |-> range,
                                 ret |-> r.ret, pre |-> queue]
              /\ run_state' = IF r.ret = "abort" THEN "aborted"
                              ELSE run_state
    /\ UNCHANGED <<avars, pvars, ndebug, mem_reuse_env, sycl_intel, arg_list,
                   mem_info, svars, cvars, released>>

KernelNext == ParallelFor

KernelSpec == KernelInit /\ [][KernelNext]_vars

\* what the kernel is to get for argument arg: an accessor to the buffer, the
\* USM pointer, a null pointer, or the scalar in its own width
BindingOf(arg) ==
    CASE arg.kind = "buffer" ->
             [what |-> "accessor", bits |-> 0, val |-> arg.value]
      [] arg.kind = "usm" ->
             [what |-> "usm_ptr", bits |-> 0, val |-> arg.value]
      [] arg.kind = "null" -> [what |-> "nullptr", bits |-> 0, val |-> 0]
      [] OTHER -> [what |-> "scalar", bits |-> 8 * arg.size, val |-> arg.value]

\* the arguments parallel_for has a case for
Supported(arg) ==
    IF arg.is_global
    THEN arg.kind \in {"null", "buffer"}
             \cup (IF sycl_intel THEN {"usm"} ELSE {})
    ELSE arg.size \in {1, 2, 4, 8}

\* argument i of the list at kernel index i, for every i in order
EveryArgument(list) ==
    [k \in 1..Len(list) |-> [index |-> k - 1, v |-> BindingOf(list[k])]]

\* the last call submitted exactly one command group, with bindings args
SubmittedOne(args) ==
    /\ Len(queue) = Len(kernel_last.pre) + 1
    /\ SubSeq(queue, 1, Len(kernel_last.pre)) = kernel_last.pre
    /\ queue[Len(queue)].args = args

\* the last call of parallel_for was for a zero / a non-zero range
ZeroCall == kernel_last.called /\ kernel_last.range.is_zero

NonZeroCall == kernel_last.called /\ ~kernel_last.range.is_zero

\* a zero range: success, nothing submitted, no argument bound
ZeroRangeDoesNothing ==
    ZeroCall => /\ kernel_last.ret = "success"
                /\ queue = kernel_last.pre

====
